---- MODULE Spec2Model ----
(***************************************************************************)
(* Model of static/webrtcclient.js: the browser page of a two-party WebRTC *)
(* call.  A page holds four module-level globals (peerConnection,          *)
(* dataChannel, room, socket), two video sinks and a transcript.  Its      *)
(* handlers run to completion on one thread; an async handler suspends at  *)
(* every await and its continuation runs later as a separate step.         *)
(*                                                                         *)
(* The signaling server, the RTCPeerConnection engine, the media devices   *)
(* and the user are the environment: they deliver events, settle promises  *)
(* and click buttons in any order.                                         *)
(***************************************************************************)
EXTENDS Integers, Sequences, FiniteSets, Bags

VARIABLES client

vars == <<client>>

----------------------------------------------------------------------------
(* Bounds of the exploration *)

MaxCalls == 2        \* clicks on the call button
MaxDeliveries == 2   \* signaling events delivered to a page
MaxHangUps == 2      \* clicks on the hang-up button
MaxEngineEvents == 2 \* track / datachannel events raised by the engine
MaxIceEvents == 2    \* icecandidate events raised by the engine
MaxSends == 2        \* clicks on the send button of a page, or of the two pages of a room
MaxRoomTracks == 1   \* track events raised on a page of the room
MaxRoomHangUps == 1  \* clicks on the hang-up buttons of the two pages of a room

----------------------------------------------------------------------------
(* Values *)

\* the pages under observation: one page, with the server, the peer, the
\* engine and the user as its environment
Observed == {"A"}

\* a global declared without initialiser holds undefined
Undefined == 0

\* hangUp assigns null to the handles and to the sinks
Null == -1

RoomUndefined == "<undefined>"

\* prompt() returns null when the user cancels it
PromptCancelled == "<null>"

RoomInputs == {"X", "", PromptCancelled}

RoomNotices == {"created", "joined", "full"}

SignalingEvents == RoomNotices \cup {"new_peer", "invite", "ok", "ice_candidate", "bye"}

EmittedEvents == {"join", "invite", "ok", "ice_candidate", "bye"}

EngineOps == {"createDataChannel", "createOffer", "setLocalDescription(offer)",
              "setRemoteDescription(answer)", "setRemoteDescription(offer)",
              "createAnswer", "setLocalDescription(answer)", "addIceCandidate",
              "close"}

ChannelClosedLine == "*** Channel is closed ***"

ChannelReadyLine == "*** Channel is ready ***"

\* what the user types into dataChannelInput
Payloads == {"hello"}

Settlements == {"resolve", "reject"}

\* event.candidate of an icecandidate event: a candidate, or null when the
\* gathering is complete
LocalCandidates == {1, 2}

CandidateFields == LocalCandidates \cup {Null}

\* assigning undefined to HTMLMediaElement.srcObject either converts it to
\* null (WebIDL nullable conversion) or throws a TypeError, by browser
UndefinedSrcObject == {"null", "throws"}

----------------------------------------------------------------------------
(* The state of one page *)

\* the record of a step: its handler, whether hangUp ran while the handler was
\* suspended, the engine operations it invoked and the events it emitted (again:
\* those the page had invoked or emitted before), whether it ended in an
\* uncaught exception or unhandled rejection, and whether hangUp had run
StepRecord(act, stale, closed) ==
  [act |-> act, stale |-> stale, closed |-> closed,
   ops |-> {}, sent |-> {}, again |-> {}, err |-> FALSE]

NoStep == StepRecord("init", FALSE, FALSE)

InitClient ==
  [ peerConnection |-> Undefined,
    dataChannel    |-> Undefined,
    room           |-> RoomUndefined,
    socket         |-> Undefined,
    localVideo     |-> Null,
    remoteVideo    |-> Null,
    output         |-> <<>>,
    \* objects owned by the browser
    sockets        |-> 0,       \* socket.io connections opened, handlers attached
    streams        |-> <<>>,    \* local streams acquired: TRUE while tracks are live
    pcs            |-> <<>>,    \* RTCPeerConnection objects constructed
    chans          |-> <<>>,    \* RTCDataChannel objects
    tasks          |-> EmptyBag, \* suspended async functions, a bag
    \* history: what the page has done so far, and what its last step did
    ops            |-> {},      \* engine operations invoked
    sent           |-> {},      \* signaling events emitted
    recv           |-> {},      \* signaling events received
    hungUp         |-> FALSE,   \* hangUp has run
    nCalls         |-> 0,
    nDelivered     |-> 0,
    iceReceived    |-> 0,       \* remote candidates delivered
    iceApplied     |-> 0,       \* addIceCandidate calls
    nClicks        |-> 0,
    nEngineEvents  |-> 0,
    inbox          |-> <<>>,    \* signaling events on their way to the page
    input          |-> "",      \* dataChannelInput.value
    dcOut          |-> <<>>,    \* data handed to RTCDataChannel.send, with its channel
    dcSeen         |-> 0,       \* message events of the channel handled
    nSends         |-> 0,
    unloaded       |-> FALSE,   \* the window has been unloaded
    iceGathered    |-> <<>>,    \* event.candidate of the icecandidate events raised
    iceOut         |-> <<>>,    \* candidates emitted as ice_candidate
    last           |-> NoStep ]

HasHandle(s) == s.peerConnection \in 1..Len(s.pcs)

HasChannel(s) == s.dataChannel \in 1..Len(s.chans)

\* an uncaught exception or an unhandled rejection
Throw(s) == [s EXCEPT !.last.err = TRUE]

\* a call of a method of the RTCPeerConnection
Invoke(s, op) ==
  [s EXCEPT !.ops = @ \cup {op},
            !.last.ops = @ \cup {op},
            !.last.again = IF op \in s.ops THEN @ \cup {op} ELSE @]

\* socket.emit(ev, ...)
Emit(s, ev) ==
  [s EXCEPT !.sent = @ \cup {ev},
            !.last.sent = @ \cup {ev},
            !.last.again = IF ev \in s.sent THEN @ \cup {ev} ELSE @]

\* the async function fn suspends at the await of operation at
Await(s, fn, at, stale) ==
  [s EXCEPT !.tasks = @ (+) SetToBag({[fn |-> fn, at |-> at, pc |-> s.peerConnection,
                                       stale |-> stale]})]

Mark(s, act, stale) == [s EXCEPT !.last = StepRecord(act, stale, s.hungUp)]

----------------------------------------------------------------------------
(* 1. Make call *)

\* the stream obtained by enable_camera is shown on localVideo
show_local_stream(s) ==
  [s EXCEPT !.streams = Append(@, TRUE), !.localVideo = Len(s.streams) + 1]

create_signaling_connection(s) ==
  [s EXCEPT !.sockets = @ + 1, !.socket = s.sockets + 1]

\* room = prompt(...); the join is emitted unless room is the empty string
call_room(s, input) ==
  LET s1 == [s EXCEPT !.room = input]
  IN  IF input # "" THEN Emit(s1, "join") ELSE s1

NewPeerConnection ==
  [closed |-> FALSE, localSet |-> FALSE, remoteInvoked |-> FALSE, remoteSet |-> FALSE]

\* new RTCPeerConnection(), then localStream.getTracks(): a TypeError when the
\* stream is undefined, raised before call() assigns the global
create_peerconnection(s, stream) ==
  LET s1 == [s EXCEPT !.pcs = Append(@, NewPeerConnection)]
  IN  IF stream = Undefined
      THEN Throw(s1)
      ELSE [s1 EXCEPT !.peerConnection = Len(s1.pcs)]

\* call() after enable_camera has returned
call_rest(s, stream, input) ==
  create_peerconnection(call_room(create_signaling_connection(s), input), stream)

\* the call button: call() runs up to the await of getUserMedia
call(s) == Await([s EXCEPT !.nCalls = @ + 1], "call", "getUserMedia", FALSE)

\* the continuation of call() once the media promise of task t has settled
call_resume(s, t, settle, input, undef) ==
  IF settle = "resolve"
  THEN LET s1 == show_local_stream(s)
       IN  call_rest(s1, s1.localVideo, input)
  ELSE IF t.at = "getUserMedia"
       THEN Await(s, "call", "getDisplayMedia", t.stale)
       ELSE IF undef = "throws"
            THEN Throw(s)
            ELSE call_rest([s EXCEPT !.localVideo = Null], Undefined, input)

----------------------------------------------------------------------------
(* 7. Data channel *)

\* dataChannel = peerConnection.createDataChannel(...)
create_datachannel(s) ==
  [Invoke(s, "createDataChannel") EXCEPT
     !.chans = Append(@, [pc |-> s.peerConnection, state |-> "connecting"]),
     !.dataChannel = Len(s.chans) + 1]

\* ondatachannel of connection p: dataChannel = event.dataChannel
handle_remote_datachannel(s, p) ==
  [s EXCEPT !.chans = Append(@, [pc |-> p, state |-> "connecting"]),
            !.dataChannel = Len(s.chans) + 1]

\* dataChannel.send(data): a TypeError without a channel, an InvalidStateError
\* unless the channel is open
ChannelSend(s, data) ==
  IF ~HasChannel(s) THEN Throw(s)
  ELSE IF s.chans[s.dataChannel].state # "open" THEN Throw(s)
  ELSE [s EXCEPT !.dcOut = Append(@, [chan |-> s.dataChannel, data |-> data])]

handle_datachannel_open(s) == ChannelSend(s, ChannelReadyLine)

MeLine(message) == "        ME: " \o message \o "\n"

PeerLine(data) == "PEER: " \o data \o "\n"

sendMessage(s) ==
  LET message == s.input IN
  ChannelSend([s EXCEPT !.input = "",
                        !.output = Append(@, MeLine(message))],
              message)

\* handle_datachannel_message showing the data as a line of the page itself
handle_datachannel_message_as_me(s, data) ==
  [s EXCEPT !.output = Append(@, MeLine(data))]

handle_datachannel_message(s, data) ==
  [s EXCEPT !.output = Append(@, PeerLine(data))]

----------------------------------------------------------------------------
(* 4. Signaling for the negotiation *)

\* the description that a settled operation of task t has set on its connection
Applied(s, t) ==
  IF t.at \in {"setLocalDescription(offer)", "setLocalDescription(answer)"}
  THEN [s EXCEPT !.pcs[t.pc].localSet = TRUE]
  ELSE IF t.at \in {"setRemoteDescription(offer)", "setRemoteDescription(answer)"}
       THEN [s EXCEPT !.pcs[t.pc].remoteSet = TRUE]
       ELSE s

\* peerConnection.<op>(...) followed by await: a TypeError when the global holds
\* no connection
InvokeAwait(s, fn, op, stale) ==
  IF ~HasHandle(s)
  THEN Throw(s)
  ELSE LET s1 == IF op \in {"setRemoteDescription(offer)", "setRemoteDescription(answer)"}
                 THEN [s EXCEPT !.pcs[s.peerConnection].remoteInvoked = TRUE]
                 ELSE s
       IN  Await(Invoke(s1, op), fn, op, stale)

handle_new_peer(s) ==
  IF ~HasHandle(s)
  THEN Throw(s)
  ELSE InvokeAwait(create_datachannel(s), "handle_new_peer", "createOffer", FALSE)

\* handle_new_peer keeping its offer to itself
handle_new_peer_resume_keeps_offer(s, t, settle) ==
  IF settle = "reject"
  THEN Throw(s)
  ELSE IF t.at = "createOffer"
       THEN InvokeAwait(s, "handle_new_peer", "setLocalDescription(offer)", t.stale)
       ELSE Applied(s, t)

handle_new_peer_resume(s, t, settle) ==
  IF settle = "reject"
  THEN Throw(s)
  ELSE IF t.at = "createOffer"
       THEN InvokeAwait(s, "handle_new_peer", "setLocalDescription(offer)", t.stale)
       ELSE Emit(Applied(s, t), "invite")

handle_invite(s) ==
  InvokeAwait(s, "handle_invite", "setRemoteDescription(offer)", FALSE)

\* handle_invite answering with the event name of the Caller
handle_invite_resume_emits_invite(s, t, settle) ==
  IF settle = "reject"
  THEN Throw(s)
  ELSE IF t.at = "setRemoteDescription(offer)"
       THEN InvokeAwait(Applied(s, t), "handle_invite", "createAnswer", t.stale)
       ELSE IF t.at = "createAnswer"
            THEN InvokeAwait(s, "handle_invite", "setLocalDescription(answer)", t.stale)
            ELSE Emit(Applied(s, t), "invite")

handle_invite_resume(s, t, settle) ==
  IF settle = "reject"
  THEN Throw(s)
  ELSE IF t.at = "setRemoteDescription(offer)"
       THEN InvokeAwait(Applied(s, t), "handle_invite", "createAnswer", t.stale)
       ELSE IF t.at = "createAnswer"
            THEN InvokeAwait(s, "handle_invite", "setLocalDescription(answer)", t.stale)
            ELSE Emit(Applied(s, t), "ok")

handle_ok(s) ==
  InvokeAwait(s, "handle_ok", "setRemoteDescription(answer)", FALSE)

handle_ok_resume(s, t, settle) ==
  IF settle = "reject" THEN Throw(s) ELSE Applied(s, t)

----------------------------------------------------------------------------
(* 5. ICE negotiation and 6. remote stream *)

\* peerConnection.addIceCandidate(candidate), not awaited
handle_remote_icecandidate(s) ==
  IF ~HasHandle(s)
  THEN Throw(s)
  ELSE [Invoke(s, "addIceCandidate") EXCEPT !.iceApplied = @ + 1]

\* ontrack of connection p: remoteVideo shows the stream of the event
handle_remote_track(s, p) == [s EXCEPT !.remoteVideo = p]

\* handle_local_icecandidate forwarding the end-of-gathering event as well
handle_local_icecandidate_forwards_null(s, candidate) ==
  [Emit(s, "ice_candidate") EXCEPT !.iceOut = Append(@, candidate)]

handle_local_icecandidate(s, candidate) ==
  IF candidate # Null
  THEN [Emit(s, "ice_candidate") EXCEPT !.iceOut = Append(@, candidate)]
  ELSE s

----------------------------------------------------------------------------
(* 8. End of call *)

CloseChannelsOf(chans, p) ==
  [i \in 1..Len(chans) |->
     IF chans[i].pc = p THEN [chans[i] EXCEPT !.state = "closed"] ELSE chans[i]]

\* the suspended functions, each marked as having seen hangUp run
Stale(tasks) ==
  LET old(u) == {t \in BagToSet(tasks) : [t EXCEPT !.stale = TRUE] = u}
      sum[S \in SUBSET BagToSet(tasks)] ==
        IF S = {} THEN 0
        ELSE LET t == CHOOSE x \in S : TRUE IN CopiesIn(t, tasks) + sum[S \ {t}]
  IN  [u \in {[t EXCEPT !.stale = TRUE] : t \in BagToSet(tasks)} |-> sum[old(u)]]

hangUp(s) ==
  LET s0 == [s EXCEPT !.hungUp = TRUE,
                      !.tasks = Stale(s.tasks)]
  IN
  IF s0.socket = Undefined THEN Throw(s0) ELSE
  LET s1 == Emit(s0, "bye") IN
  IF s1.localVideo = Null THEN Throw(s1) ELSE
  LET s2 == [s1 EXCEPT !.streams[s1.localVideo] = FALSE] IN
  IF s2.remoteVideo = Null THEN Throw(s2) ELSE
  LET s3 == [s2 EXCEPT !.localVideo = Null, !.remoteVideo = Null] IN
  IF ~HasHandle(s3) THEN Throw(s3) ELSE
  LET s4 == [Invoke(s3, "close") EXCEPT
               !.pcs[s3.peerConnection].closed = TRUE,
               !.chans = CloseChannelsOf(s3.chans, s3.peerConnection),
               !.peerConnection = Null] IN
  IF ~HasChannel(s4) THEN Throw(s4) ELSE
  [s4 EXCEPT !.chans[s4.dataChannel].state = "closed",
             !.dataChannel = Null,
             !.output = Append(@, ChannelClosedLine)]

----------------------------------------------------------------------------
(* Steps of a page.  Every step records its name in last; a continuation    *)
(* also records whether hangUp ran while its function was suspended.        *)

\* the handlers were attached to a socket, so the server can deliver to it
Receives(s, ev) ==
  /\ s.sockets > 0
  /\ s.nDelivered < MaxDeliveries

\* socket.on(ev, ...) is run
Heard(s, ev) ==
  Mark([s EXCEPT !.recv = @ \cup {ev},
                 !.iceReceived = IF ev = "ice_candidate" THEN @ + 1 ELSE @], ev, FALSE)

Received(s, ev) == [Heard(s, ev) EXCEPT !.nDelivered = @ + 1]

\* the handler that add_signaling_handlers attaches to ev
dispatch(s, ev) ==
  CASE ev = "new_peer" -> handle_new_peer(s)
    [] ev = "invite" -> handle_invite(s)
    [] ev = "ok" -> handle_ok(s)
    [] ev = "ice_candidate" -> handle_remote_icecandidate(s)
    [] ev = "bye" -> hangUp(s)
    [] OTHER -> s

\* the promise that task t of s awaits can settle: an operation of a closed
\* connection never settles
CanSettle(s, t, fn) ==
  /\ t.fn = fn
  /\ fn # "call" => ~s.pcs[t.pc].closed

\* s as the continuation of its task t finds it
Resumed(s, t) ==
  Mark([s EXCEPT !.tasks = @ (-) SetToBag({t})], t.fn, t.stale)

Step(c, s) == client' = [client EXCEPT ![c] = s]

\* the first click on the call button
CallClick(c) ==
  /\ client[c].nCalls = 0
  /\ Step(c, call(Mark(client[c], "call", FALSE)))

\* a further click on the call button, whatever has become of the earlier call
CallAgain(c) ==
  /\ client[c].nCalls > 0
  /\ client[c].nCalls < MaxCalls
  /\ Step(c, call(Mark(client[c], "call", FALSE)))

CallResume(c) ==
  \E t \in BagToSet(client[c].tasks), settle \in Settlements,
     input \in RoomInputs, undef \in UndefinedSrcObject :
    /\ CanSettle(client[c], t, "call")
    /\ Step(c, call_resume(Resumed(client[c], t), t, settle, input, undef))

OnRoomNotice(c) ==
  \E ev \in RoomNotices :
    /\ Receives(client[c], ev)
    /\ Step(c, Received(client[c], ev))

OnNewPeer(c) ==
  /\ Receives(client[c], "new_peer")
  /\ Step(c, handle_new_peer(Received(client[c], "new_peer")))

NewPeerResume(c) ==
  \E t \in BagToSet(client[c].tasks), settle \in Settlements :
    /\ CanSettle(client[c], t, "handle_new_peer")
    /\ Step(c, handle_new_peer_resume(Resumed(client[c], t), t, settle))

OnInvite(c) ==
  /\ Receives(client[c], "invite")
  /\ Step(c, handle_invite(Received(client[c], "invite")))

InviteResume(c) ==
  \E t \in BagToSet(client[c].tasks), settle \in Settlements :
    /\ CanSettle(client[c], t, "handle_invite")
    /\ Step(c, handle_invite_resume(Resumed(client[c], t), t, settle))

OnOk(c) ==
  /\ Receives(client[c], "ok")
  /\ Step(c, handle_ok(Received(client[c], "ok")))

OkResume(c) ==
  \E t \in BagToSet(client[c].tasks), settle \in Settlements :
    /\ CanSettle(client[c], t, "handle_ok")
    /\ Step(c, handle_ok_resume(Resumed(client[c], t), t, settle))

OnIceCandidate(c) ==
  /\ Receives(client[c], "ice_candidate")
  /\ Step(c, handle_remote_icecandidate(Received(client[c], "ice_candidate")))

OnBye(c) ==
  /\ Receives(client[c], "bye")
  /\ Step(c, hangUp(Received(client[c], "bye")))

HangUpClick(c) ==
  /\ client[c].nClicks < MaxHangUps
  /\ Step(c, hangUp(Mark([client[c] EXCEPT !.nClicks = @ + 1], "hangUp", FALSE)))

\* the engine raises track on a connection whose remote description is being
\* or has been applied
RemoteTrack(c) ==
  \E p \in 1..Len(client[c].pcs) :
    /\ client[c].nEngineEvents < MaxEngineEvents
    /\ ~client[c].pcs[p].closed
    /\ client[c].pcs[p].remoteInvoked
    /\ Step(c, handle_remote_track(
                 Mark([client[c] EXCEPT !.nEngineEvents = @ + 1], "track", FALSE), p))

\* the engine raises datachannel on a connection with both descriptions set
RemoteDataChannel(c) ==
  \E p \in 1..Len(client[c].pcs) :
    /\ client[c].nEngineEvents < MaxEngineEvents
    /\ ~client[c].pcs[p].closed
    /\ client[c].pcs[p].localSet
    /\ client[c].pcs[p].remoteSet
    /\ Step(c, handle_remote_datachannel(
                 Mark([client[c] EXCEPT !.nEngineEvents = @ + 1], "datachannel", FALSE), p))

\* the engine gathers candidates once a local description is set
LocalIceCandidate(c) ==
  \E p \in 1..Len(client[c].pcs), candidate \in CandidateFields :
    /\ Len(client[c].iceGathered) < MaxIceEvents
    /\ ~client[c].pcs[p].closed
    /\ client[c].pcs[p].localSet
    /\ Step(c, handle_local_icecandidate(
                 Mark([client[c] EXCEPT !.iceGathered = Append(@, candidate)],
                      "icecandidate", FALSE),
                 candidate))

\* the user types a payload into the input field
TypeMessage(c) ==
  \E message \in Payloads :
    /\ client[c].input # message
    /\ client[c].nSends < MaxSends
    /\ Step(c, Mark([client[c] EXCEPT !.input = message], "input", FALSE))

\* a click on the send button
SendClick(c) ==
  /\ client[c].nSends < MaxSends
  /\ Step(c, sendMessage(Mark([client[c] EXCEPT !.nSends = @ + 1], "sendMessage", FALSE)))

\* channel i of the page can open: its connection has both descriptions
Connected(s, i) ==
  /\ s.chans[i].state = "connecting"
  /\ ~s.pcs[s.chans[i].pc].closed
  /\ s.pcs[s.chans[i].pc].localSet
  /\ s.pcs[s.chans[i].pc].remoteSet

\* onopen of channel i
Opened(s, i) ==
  handle_datachannel_open(Mark([s EXCEPT !.chans[i].state = "open"], "open", FALSE))

ChannelOpen(c) ==
  \E i \in 1..Len(client[c].chans) :
    /\ Connected(client[c], i)
    /\ Step(c, Opened(client[c], i))

\* window.onbeforeunload: the page goes away, whatever hangUp did
Unload(c) ==
  /\ ~client[c].unloaded
  /\ Step(c, hangUp(Mark([client[c] EXCEPT !.unloaded = TRUE], "beforeunload", FALSE)))

Init == client = [c \in Observed |-> InitClient]

Next ==
  \E c \in Observed :
    \/ CallClick(c)
    \/ CallResume(c)
    \/ OnRoomNotice(c)
    \/ OnNewPeer(c)
    \/ NewPeerResume(c)
    \/ OnInvite(c)
    \/ InviteResume(c)
    \/ OnOk(c)
    \/ OkResume(c)
    \/ OnIceCandidate(c)
    \/ OnBye(c)
    \/ HangUpClick(c)
    \/ RemoteTrack(c)
    \/ RemoteDataChannel(c)

Spec == Init /\ [][Next]_vars

\* the same page with a user who may click the call button again
NextRecall == Next \/ \E c \in Observed : CallAgain(c)

SpecRecall == Init /\ [][NextRecall]_vars

----------------------------------------------------------------------------
(* The page with the candidates its engine gathers *)

NextIce == Next \/ \E c \in Observed : LocalIceCandidate(c)

SpecIce == Init /\ [][NextIce]_vars

----------------------------------------------------------------------------
(* Two pages in one room.  The server relays: the first page to join gets   *)
(* created, the second gets joined and the first new_peer; invite, ok,       *)
(* ice_candidate and bye go to the other page of the room, in the order of   *)
(* their sending.  The users grant the camera and name room "X"; the engine  *)
(* completes every operation, opens the data channel once both connections   *)
(* hold both descriptions and carries its messages in order.                 *)

Pages == {"A", "B"}

Peer(c) == CHOOSE d \in Pages : d # c

InRoom(s) == "join" \in s.sent

\* what the server sends to the sender of ev, and what to the other page
ToSender(ev, peerIn) ==
  IF ev # "join" THEN <<>> ELSE IF peerIn THEN <<"joined">> ELSE <<"created">>

ToPeer(ev, peerIn) ==
  IF ~peerIn THEN <<>> ELSE IF ev = "join" THEN <<"new_peer">> ELSE <<ev>>

\* page c becomes s and the server relays what the step emitted
Relay(c, s) ==
  LET peerIn == InRoom(client[Peer(c)])
      back == IF s.last.sent = {} THEN <<>>
              ELSE ToSender(CHOOSE ev \in s.last.sent : TRUE, peerIn)
      forth == IF s.last.sent = {} THEN <<>>
               ELSE ToPeer(CHOOSE ev \in s.last.sent : TRUE, peerIn)
  IN  client' = [d \in Pages |->
                   IF d = c THEN [s EXCEPT !.inbox = @ \o back]
                   ELSE [client[d] EXCEPT !.inbox = @ \o forth]]

\* some connection of the page holds both descriptions
Established(s) ==
  \E p \in 1..Len(s.pcs) :
    ~s.pcs[p].closed /\ s.pcs[p].localSet /\ s.pcs[p].remoteSet

RoomCallResume(c) ==
  \E t \in BagToSet(client[c].tasks) :
    /\ CanSettle(client[c], t, "call")
    /\ Relay(c, call_resume(Resumed(client[c], t), t, "resolve", "X", "null"))

RoomDeliver(c) ==
  /\ client[c].inbox # <<>>
  /\ client[c].sockets > 0
  /\ LET ev == Head(client[c].inbox)
     IN  Relay(c, dispatch(Heard([client[c] EXCEPT !.inbox = Tail(@)], ev), ev))

RoomNewPeerResume(c) ==
  \E t \in BagToSet(client[c].tasks) :
    /\ CanSettle(client[c], t, "handle_new_peer")
    /\ Relay(c, handle_new_peer_resume(Resumed(client[c], t), t, "resolve"))

RoomInviteResume(c) ==
  \E t \in BagToSet(client[c].tasks) :
    /\ CanSettle(client[c], t, "handle_invite")
    /\ Relay(c, handle_invite_resume(Resumed(client[c], t), t, "resolve"))

RoomOkResume(c) ==
  \E t \in BagToSet(client[c].tasks) :
    /\ CanSettle(client[c], t, "handle_ok")
    /\ Relay(c, handle_ok_resume(Resumed(client[c], t), t, "resolve"))

\* clicks on the buttons of both pages so far
Clicks(field) == client["A"][field] + client["B"][field]

RoomHangUp(c) ==
  /\ Clicks("nClicks") < MaxRoomHangUps
  /\ Relay(c, hangUp(Mark([client[c] EXCEPT !.nClicks = @ + 1], "hangUp", FALSE)))

\* the channel the peer created reaches the page
RoomDataChannel(c) ==
  \E p \in 1..Len(client[c].pcs) :
    /\ client[c].chans = <<>>
    /\ client[Peer(c)].chans # <<>>
    /\ Established(client[Peer(c)])
    /\ ~client[c].pcs[p].closed
    /\ client[c].pcs[p].localSet
    /\ client[c].pcs[p].remoteSet
    /\ Step(c, handle_remote_datachannel(Mark(client[c], "datachannel", FALSE), p))

RoomChannelOpen(c) ==
  \E i \in 1..Len(client[c].chans) :
    /\ Connected(client[c], i)
    /\ Established(client[Peer(c)])
    /\ Step(c, Opened(client[c], i))

\* the next message of the peer reaches the open channel of the page
RoomChannelMessage(c) ==
  /\ \E i \in 1..Len(client[c].chans) : client[c].chans[i].state = "open"
  /\ client[c].dcSeen < Len(client[Peer(c)].dcOut)
  /\ Step(c, handle_datachannel_message(
               Mark([client[c] EXCEPT !.dcSeen = @ + 1], "message", FALSE),
               client[Peer(c)].dcOut[client[c].dcSeen + 1].data))

\* the engine of the page gathers a candidate, or ends its gathering
RoomIceCandidate(c) ==
  \E p \in 1..Len(client[c].pcs), candidate \in CandidateFields :
    /\ Len(client[c].iceGathered) < MaxIceEvents
    /\ ~client[c].pcs[p].closed
    /\ client[c].pcs[p].localSet
    /\ Relay(c, handle_local_icecandidate(
                  Mark([client[c] EXCEPT !.iceGathered = Append(@, candidate)],
                       "icecandidate", FALSE),
                  candidate))

RoomTrack(c) == client[c].nEngineEvents < MaxRoomTracks /\ RemoteTrack(c)

RoomTypeMessage(c) == Clicks("nSends") < MaxSends /\ TypeMessage(c)

RoomSendClick(c) == Clicks("nSends") < MaxSends /\ SendClick(c)

InitRoom == client = [c \in Pages |-> InitClient]

\* the steps that the server, the engine and the granted camera owe the pages
RoomProgress(c) ==
  \/ CallClick(c)
  \/ RoomCallResume(c)
  \/ RoomDeliver(c)
  \/ RoomNewPeerResume(c)
  \/ RoomInviteResume(c)
  \/ RoomOkResume(c)
  \/ RoomDataChannel(c)
  \/ RoomChannelOpen(c)
  \/ RoomChannelMessage(c)

NextRoom ==
  \E c \in Pages :
    \/ RoomProgress(c)
    \/ RoomHangUp(c)
    \/ RoomTrack(c)
    \/ RoomTypeMessage(c)
    \/ RoomSendClick(c)

SpecRoom == InitRoom /\ [][NextRoom]_vars

\* the room when nobody hangs up and nobody uses the text channel
NextHappy == \E c \in Pages : RoomProgress(c) \/ RoomIceCandidate(c)

SpecHappy ==
  InitRoom /\ [][NextHappy]_vars /\ \A c \in Pages : WF_vars(RoomProgress(c))

----------------------------------------------------------------------------
(* The page with its text channel *)

NextChat ==
  \/ Next
  \/ \E c \in Observed : \/ TypeMessage(c)
                         \/ SendClick(c)
                         \/ ChannelOpen(c)

SpecChat == Init /\ [][NextChat]_vars

----------------------------------------------------------------------------
(* The page until its window is unloaded *)

NextUnload ==
  \/ Next /\ \A c \in Observed : ~client[c].unloaded
  \/ \E c \in Observed : Unload(c)

SpecUnload == Init /\ [][NextUnload]_vars

----------------------------------------------------------------------------
(* Properties *)

\* the Caller path ran: handle_new_peer created an offer
CallerPath(s) == "createOffer" \in s.ops

\* the Callee path ran: handle_invite applied an offer
CalleePath(s) == "setRemoteDescription(offer)" \in s.ops

\* the page joined a room with a non-empty token
Joined(s) == s.room = "X" /\ "join" \in s.sent

\* a session in progress: call() ran to its end after joining a room with a
\* non-empty token, and hangUp has not run
Started(s) == Joined(s) /\ HasHandle(s) /\ ~s.hungUp

HangUpSteps == {"hangUp", "bye"}

DescriptionSteps ==
  {"createDataChannel", "createOffer", "setLocalDescription(offer)", "invite",
   "setRemoteDescription(answer)", "setRemoteDescription(offer)", "createAnswer",
   "setLocalDescription(answer)", "ok"}

\* what the page has done: engine operations and emitted events
Done(s) == s.ops \cup s.sent

\* step b is done only after step a
Before(s, a, b) == b \in Done(s) => a \in Done(s)

\* the invite is out and no answer has been applied
OfferSent(s) == "invite" \in s.sent /\ "setRemoteDescription(answer)" \notin s.ops

\* the resources hangUp releases, as the sinks and the globals show them
Resources(s) ==
  <<s.localVideo, s.remoteVideo, s.peerConnection, s.dataChannel, s.streams,
    s.pcs, s.chans, s.output>>

\* every handle is cleared and every sink detached
TornDown(s) ==
  /\ s.hungUp
  /\ s.localVideo = Null /\ s.remoteVideo = Null
  /\ s.peerConnection = Null /\ s.dataChannel = Null


\* C1: in a session that joined a room with a non-empty token, exactly one of
\* the Caller path and the Callee path executes: never both, and never neither
\* once new_peer or invite has been delivered.
C1_ExactlyOneRole ==
  \A c \in DOMAIN client :
    LET s == client[c] IN
    Started(s) =>
      /\ ~(CallerPath(s) /\ CalleePath(s))
      /\ ({"new_peer", "invite"} \cap s.recv # {} => CallerPath(s) \/ CalleePath(s))

\* C2: the session-description steps run in the per-role order and each at
\* most once per session, whatever is delivered and however often.
C2_StepsInOrderOnce ==
  \A c \in DOMAIN client :
    LET s == client[c] IN
    Started(s) =>
      /\ s.last.again \cap DescriptionSteps = {}
      /\ Before(s, "createDataChannel", "createOffer")
      /\ Before(s, "createOffer", "setLocalDescription(offer)")
      /\ Before(s, "setLocalDescription(offer)", "invite")
      /\ Before(s, "invite", "setRemoteDescription(answer)")
      /\ Before(s, "setRemoteDescription(offer)", "createAnswer")
      /\ Before(s, "createAnswer", "setLocalDescription(answer)")
      /\ Before(s, "setLocalDescription(answer)", "ok")

\* C3: an invite delivered while the session is in OfferSent, and an ok
\* delivered before this page has sent its invite, invoke no engine operation.
C3_UnexpectedDiscarded ==
  \A c \in DOMAIN client :
    LET s == client[c] IN
    Started(s) =>
      /\ (s.last.act = "invite" /\ OfferSent(s)) => s.last.ops = {}
      /\ (s.last.act = "ok" /\ "invite" \notin s.sent) => s.last.ops = {}

\* C4: every remote candidate delivered is applied exactly once: none is
\* applied twice, none is applied against a missing handle, and once the handle
\* exists every candidate delivered so far has been applied.
C4_CandidatesAppliedOnce ==
  \A c \in DOMAIN client :
    LET s == client[c] IN
    (Joined(s) /\ ~s.hungUp) =>
      /\ s.iceApplied <= s.iceReceived
      /\ HasHandle(s) => s.iceApplied = s.iceReceived
      /\ (s.last.act = "ice_candidate" /\ ~HasHandle(s)) => ~s.last.err

\* C5: addIceCandidate is invoked only on a connection whose remote
\* description has been set.
C5_CandidateAfterRemoteDescription ==
  \A c \in DOMAIN client :
    LET s == client[c] IN
    (Started(s) /\ "addIceCandidate" \in s.last.ops) => s.pcs[s.peerConnection].remoteSet

\* C6: hangUp on a session that is already torn down changes no resource,
\* emits nothing and raises no error.
C6_TeardownIdempotent ==
  [][\A c \in DOMAIN client :
       (Joined(client[c]) /\ TornDown(client[c]) /\ client'[c].last.act \in HangUpSteps) =>
         /\ Resources(client'[c]) = Resources(client[c])
         /\ client'[c].last.sent = {}
         /\ ~client'[c].last.err]_vars

\* C7: hangUp in any state of a started session releases everything: local
\* tracks stopped, sinks detached, both handles closed and cleared, and the
\* "channel closed" line shown.
C7_HangUpReleasesAll ==
  [][\A c \in DOMAIN client :
       (Started(client[c]) /\ client'[c].last.act \in HangUpSteps) =>
         /\ TornDown(client'[c])
         /\ \A i \in 1..Len(client'[c].streams) : ~client'[c].streams[i]
         /\ client'[c].pcs[client[c].peerConnection].closed
         /\ client'[c].output = Append(client[c].output, ChannelClosedLine)]_vars

\* C8: a continuation of handle_new_peer or handle_invite that fires after
\* hangUp ran invokes no engine operation, emits nothing and raises no error.
C8_StaleContinuationNoOp ==
  \A c \in DOMAIN client :
    LET s == client[c] IN
    (Joined(s) /\ s.last.stale /\ s.last.act \in {"handle_new_peer", "handle_invite"}) =>
      /\ s.last.ops = {}
      /\ s.last.sent = {}
      /\ ~s.last.err

\* C9: once hangUp has run, a delivered new_peer, invite, ok or ice_candidate
\* invokes no engine operation, emits nothing and raises no error.
C9_ClosedIsTerminal ==
  \A c \in DOMAIN client :
    LET s == client[c] IN
    (Joined(s) /\ s.last.closed
       /\ s.last.act \in {"new_peer", "invite", "ok", "ice_candidate"}) =>
      /\ s.last.ops = {}
      /\ s.last.sent = {}
      /\ ~s.last.err

\* C10: call() while a session is in progress opens no second signaling connection and
\* constructs no second negotiation handle, and leaves the live ones in place.
C10_SingleSession ==
  [][\A c \in DOMAIN client :
       (Started(client[c]) /\ client'[c].last.act = "call") =>
         /\ client'[c].socket = client[c].socket
         /\ client'[c].sockets = client[c].sockets
         /\ client'[c].peerConnection = client[c].peerConnection
         /\ Len(client'[c].pcs) = Len(client[c].pcs)]_vars

\* call() has run to its end (or to its exception)
CallOver(s) == s.nCalls > 0 /\ \A t \in BagToSet(s.tasks) : t.fn # "call"

\* call() found no stream (camera and display both refused) or was given the
\* empty room name
AcquisitionFailed(s) == CallOver(s) /\ (s.streams = <<>> \/ s.room = "")

\* C11: when call() acquires no stream or is given an empty room token, no
\* session is left: no join was sent, no signaling handlers are attached and
\* no negotiation handle was constructed.
C11_NoPartialSession ==
  \A c \in DOMAIN client :
    LET s == client[c] IN
    AcquisitionFailed(s) =>
      /\ "join" \notin s.sent
      /\ s.sockets = 0
      /\ s.pcs = <<>>
      /\ s.peerConnection = Undefined

\* C12: a join is emitted only for a non-empty room token: with an empty input
\* or a cancelled prompt no join is sent.
C12_JoinOnlyWithToken ==
  \A c \in DOMAIN client :
    LET s == client[c] IN
    s.room \in {"", PromptCancelled} => "join" \notin s.sent

\* C15: a session holds exactly one data channel: none is created or adopted
\* a second time and the handle, once set, is not replaced.
C15_OneDataChannel ==
  \A c \in DOMAIN client :
    LET s == client[c] IN
    Started(s) => Len(s.chans) <= 1

\* the page has received nothing but room notices
Alone(s) == s.recv \subseteq RoomNotices

\* C16: invite is emitted only after new_peer was received and ok only after
\* invite was received; a page that received only room notices has created no
\* offer and no data channel and has sent neither invite nor ok.
C16_RoleFollowsEvent ==
  \A c \in DOMAIN client :
    LET s == client[c] IN
    /\ "invite" \in s.sent => "new_peer" \in s.recv
    /\ "ok" \in s.sent => "invite" \in s.recv
    /\ Alone(s) =>
         /\ ~CallerPath(s) /\ ~CalleePath(s)
         /\ "createDataChannel" \notin s.ops
         /\ s.chans = <<>>
         /\ s.dataChannel = Undefined \/ s.hungUp
         /\ s.sent \subseteq {"join", "bye"}

\* a page that has sent its offer after new_peer and its answer after invite
C16_Witness ==
  \E c \in DOMAIN client :
    /\ {"invite", "ok"} \subseteq client[c].sent
    /\ {"new_peer", "invite"} \subseteq client[c].recv

NonNull(candidate) == candidate # Null

\* C17: the candidates emitted as ice_candidate are, in order, exactly the
\* non-null candidates of the icecandidate events raised so far, each once,
\* emitted by the step of the event itself whatever the state of the session;
\* nothing is emitted for a null candidate.
C17_LocalCandidatesForwarded ==
  \A c \in DOMAIN client :
    LET s == client[c] IN
    /\ s.iceOut = SelectSeq(s.iceGathered, NonNull)
    /\ s.last.act = "icecandidate" =>
         s.last.sent = IF s.iceGathered[Len(s.iceGathered)] = Null
                       THEN {} ELSE {"ice_candidate"}

\* a candidate and the end of gathering were both raised before the remote
\* description was set
C17_Witness ==
  \E c \in DOMAIN client :
    LET s == client[c] IN
    /\ s.last.act = "icecandidate"
    /\ Len(s.iceGathered) = 2
    /\ s.iceGathered[2] = Null
    /\ s.iceGathered[1] # Null
    /\ HasHandle(s)
    /\ ~s.pcs[s.peerConnection].remoteSet

\* call() was never invoked, or is still waiting for enable_camera
BeforeMedia(s) == s.nCalls = 0 \/ \E t \in BagToSet(s.tasks) : t.fn = "call"

\* C19: the teardown run by the unload of the window before call() passed the
\* media acquisition ends without an exception, invokes nothing and emits
\* nothing.
C19_UnloadBeforeCallIsSafe ==
  \A c \in DOMAIN client :
    LET s == client[c] IN
    (s.last.act = "beforeunload" /\ BeforeMedia(s)) =>
      /\ ~s.last.err
      /\ s.last.sent = {}
      /\ s.last.ops = {}

\* C20: a sendMessage that fails (no channel, channel not open or closed)
\* leaves the transcript and the input field as they were.
C20_FailedSendLeavesNoTrace ==
  [][\A c \in DOMAIN client :
       (client'[c].last.act = "sendMessage" /\ client'[c].last.err) =>
         /\ client'[c].output = client[c].output
         /\ client'[c].input = client[c].input]_vars

\* page a went the Caller's way to its end and page b the Callee's
Negotiated(a, b) ==
  LET sa == client[a]
      sb == client[b] IN
  /\ {"new_peer", "ok"} \subseteq sa.recv
  /\ {"createDataChannel", "setRemoteDescription(answer)"} \subseteq sa.ops
  /\ "invite" \in sa.sent
  /\ Established(sa)
  /\ "invite" \in sb.recv
  /\ "setRemoteDescription(offer)" \in sb.ops
  /\ "ok" \in sb.sent
  /\ Established(sb)

NobodyHangsUp == \A c \in DOMAIN client : ~client[c].hungUp

\* C13: with two pages joining one room, granted cameras, a reliable ordered
\* relay, engine operations that complete and nobody hanging up, eventually
\* the page that joined first has created the data channel, sent invite and
\* applied the answer, and the other has applied the offer and sent ok.
C13_HappyPath == <>(NobodyHangsUp /\ \E a \in Pages : Negotiated(a, Peer(a)))

\* both pages connected, nobody having hung up
C13_Witness ==
  /\ DOMAIN client = Pages
  /\ NobodyHangsUp
  /\ \E a \in Pages : Negotiated(a, Peer(a))

\* the handle of the page holds an open channel
ChannelIsOpen(s) == HasChannel(s) /\ s.chans[s.dataChannel].state = "open"

\* the step is a run of sendMessage on page c
SendStep(c) ==
  /\ client'[c].last.act = "sendMessage"
  /\ client'[c].nSends = client[c].nSends + 1

\* sendMessage on a channel that is not open throws and hands nothing to the
\* channel; on an open channel it hands over the text of the input field
SendOutcome ==
  \A c \in Pages :
    SendStep(c) =>
      IF ChannelIsOpen(client[c])
      THEN /\ ~client'[c].last.err
           /\ client'[c].dcOut =
                Append(client[c].dcOut,
                       [chan |-> client[c].dataChannel, data |-> client[c].input])
      ELSE /\ client'[c].last.err
           /\ client'[c].dcOut = client[c].dcOut

PeerLines == {PeerLine(data) : data \in Payloads \cup {ChannelReadyLine, ""}}

IsPeerLine(line) == line \in PeerLines

\* the transcript of page c shows, as PEER lines and in order, what its peer
\* handed to the channel and the channel has carried so far, and nothing else
TranscriptShowsHanded ==
  \A c \in Pages :
    LET s == client[c]
        d == client[Peer(c)] IN
    /\ s.dcSeen <= Len(d.dcOut)
    /\ SelectSeq(s.output, IsPeerLine) =
         [i \in 1..s.dcSeen |-> PeerLine(d.dcOut[i].data)]

\* C14: sendMessage before the channel is open or after it is closed throws
\* and delivers nothing to the peer; on the open channel it succeeds, and the
\* transcript of the peer shows the payload once the channel has carried it.
C14_SendOnlyWhenOpen ==
  /\ [][SendOutcome]_vars
  /\ []TranscriptShowsHanded

\* a page has sent "hello" on the open channel and its peer shows it; after
\* the hang-up that closed the channel the page has tried again and failed
C14_Witness ==
  /\ DOMAIN client = Pages
  /\ \E c \in Pages :
       LET s == client[c]
           d == client[Peer(c)] IN
       /\ s.nSends = 2
       /\ s.output[1] = MeLine("hello")
       /\ \E k \in 1..Len(s.dcOut) : s.dcOut[k].data = "hello" /\ d.dcSeen >= k
       /\ \E n \in 1..Len(d.output) : d.output[n] = PeerLine("hello")
       /\ s.last.act = "sendMessage"
       /\ s.last.err
       /\ s.chans # <<>>
       /\ \A i \in 1..Len(s.chans) : s.chans[i].state = "closed"

\* C18: after a hang-up, with the server relaying every bye and every bye
\* running hangUp, no page emits bye a second time (so that the byes in
\* flight run out).
C18_ByeAtMostOnce ==
  \A c \in DOMAIN client : "bye" \notin client[c].last.again

====
